---- MODULE Spec2Model ----
(***************************************************************************)
(* Model of near_proximity (src/src/lib.rs): the plane-sweep enumeration   *)
(* of proximity windows over k sorted position streams.                    *)
(*                                                                         *)
(* Indices are 1-based here where Rust's are 0-based: keyword i of the     *)
(* model is keywords[i-1] of the code, current[1] is the code's            *)
(* current[0], and the code's "leftmost_index = 0" is LeftmostIndex0 == 1. *)
(* A frontier entry (i, p) is the tuple <<i, p>>: e[1] is the code's e.0   *)
(* and e[2] its e.1. A window (size, path) is the tuple <<size, path>>.    *)
(***************************************************************************)
EXTENDS Integers, Sequences, FiniteSets, TLC

\* Bounds of the explored inputs.
MaxK == 3
MaxTotal == 5
MaxPos == 2

VARIABLES keywords, next, output, current, leftmost, rightmost, pc

vars == <<keywords, next, output, current, leftmost, rightmost, pc>>

-----------------------------------------------------------------------------
\* Inputs: the streams the caller hands over, each sorted non-decreasingly.

RECURSIVE SortedFrom(_, _)
SortedFrom(n, lo) ==
    IF n = 0 THEN {<<>>}
    ELSE UNION {{<<v>> \o s : s \in SortedFrom(n - 1, v)} : v \in lo..MaxPos}

RECURSIVE Sum(_)
Sum(l) == IF l = <<>> THEN 0 ELSE Head(l) + Sum(Tail(l))

\* The lengths of k streams holding at most MaxTotal positions in total.
Lengths(k) == {l \in [1..k -> 0..MaxTotal] : Sum(l) <= MaxTotal}

\* Every choice of sorted streams of the given lengths.
RECURSIVE StreamsOfLengths(_)
StreamsOfLengths(lens) ==
    IF lens = <<>> THEN {<<>>}
    ELSE {<<s>> \o rest : s \in SortedFrom(Head(lens), 0),
                          rest \in StreamsOfLengths(Tail(lens))}

\* What the caller's output vector may hold before the call.
PriorOutputs == {<<>>, <<<<1, <<0, 1>>>>, <<0, <<2>>>>>>}

-----------------------------------------------------------------------------
\* Helpers on sequences.

SetMin(S) == CHOOSE x \in S : \A y \in S : x <= y

\* Iterator::next on stream i: the item it yields, if any.
HasNext(i) == next[i] < Len(keywords[i])
Peek(i) == keywords[i][next[i] + 1]

\* Lexicographic order of slices (Ord for TinyVec / [T]).
RECURSIVE LexLeq(_, _)
LexLeq(a, b) ==
    IF a = <<>> THEN TRUE
    ELSE IF b = <<>> THEN FALSE
    ELSE IF Head(a) < Head(b) THEN TRUE
    ELSE IF Head(a) > Head(b) THEN FALSE
    ELSE LexLeq(Tail(a), Tail(b))

\* Ord for the tuple (Size, TinyVec12<Position>).
WindowLeq(a, b) == a[1] < b[1] \/ (a[1] = b[1] /\ LexLeq(a[2], b[2]))

\* The rearrangements of s.
Permuted(s) == {[j \in 1..Len(s) |-> s[f[j]]] : f \in Permutations(1..Len(s))}

\* The orders sort_unstable_by_key may leave the frontier in: every
\* rearrangement whose keys are non-decreasing (the order of entries with
\* equal keys is unspecified). The key is the position (lines 35, 81) or the
\* keyword index (line 55).
SortByPosition(s) ==
    {t \in Permuted(s) : \A j \in 1..(Len(s) - 1) : t[j][2] <= t[j + 1][2]}
SortByKeyword(s) ==
    {t \in Permuted(s) : \A j \in 1..(Len(s) - 1) : t[j][1] <= t[j + 1][1]}

\* output.sort_unstable(): the order is total, so the result is unique.
RECURSIVE InsertWindow(_, _)
InsertWindow(w, s) ==
    IF s = <<>> THEN <<w>>
    ELSE IF WindowLeq(w, Head(s)) THEN <<w>> \o s
    ELSE <<Head(s)>> \o InsertWindow(w, Tail(s))

\* Mutant: the final sort left out.
SortOutputSkipped(s) == s

RECURSIVE SortOutput(_)
SortOutput(s) ==
    IF s = <<>> THEN <<>> ELSE InsertWindow(Head(s), SortOutput(Tail(s)))

\* current.iter().map(|(_, p)| *p).collect()
Path(cur) == [j \in 1..Len(cur) |-> cur[j][2]]

\* rightmost.1 - leftmost.1 on Size = u32. The result is negative exactly
\* when the code's subtraction would overflow (a panic with overflow checks,
\* a wrapped value without); NoUnderflow below shows that never happens.
Sub(a, b) == a - b

\* The window recorded for a frontier sorted by keyword index (lines 56-58).
Window(c) == <<Sub(rightmost[2], leftmost[2]), Path(c)>>

\* Mutant: the output kept as the caller left it.
ClearSkipped(out) == out

\* output.clear()
Clear(out) == <<>>

\* Mutant: the stream drained from its back.
SinglesReversed(stream) ==
    [j \in 1..Len(stream) |-> <<0, <<stream[Len(stream) - j + 1]>>>>]

\* keywords.map(|p| (0, TinyVec12::from_iter(Some(p)))) on one stream.
Singles(stream) == [j \in 1..Len(stream) |-> <<0, <<stream[j]>>>>]

\* Mutant: the item is looked at without being consumed.
AdvanceNone(i) == next

\* The cursors after keywords[i].next() yielded an item.
Advance(i) == [next EXCEPT ![i] = @ + 1]

\* leftmost_index as initialised at the top of an iteration.
LeftmostIndex0 == 1

NoEntry == <<0, 0>>

-----------------------------------------------------------------------------
Init ==
    /\ \E k \in 0..MaxK : \E lens \in Lengths(k) :
        keywords \in StreamsOfLengths(lens)
    /\ next = [i \in 1..Len(keywords) |-> 0]
    /\ output \in PriorOutputs
    /\ current = <<>>
    /\ leftmost = NoEntry
    /\ rightmost = NoEntry
    /\ pc = "call"

\* keywords.len() < 2: the single stream, if any, is drained into output.
EnterFew ==
    /\ pc = "call"
    /\ Len(keywords) < 2
    /\ output' = IF Len(keywords) = 1
                 THEN Clear(output) \o Singles(keywords[1])
                 ELSE Clear(output)
    /\ next' = [i \in 1..Len(keywords) |-> Len(keywords[i])]
    /\ pc' = "done"
    /\ UNCHANGED <<keywords, current, leftmost, rightmost>>

\* The first stream found empty while popping the top of each list.
FirstEmpty == SetMin({i \in 1..Len(keywords) : keywords[i] = <<>>})

\* Some stream is empty: return after popping the streams before it.
EnterEmpty ==
    /\ pc = "call"
    /\ Len(keywords) >= 2
    /\ \E i \in 1..Len(keywords) : keywords[i] = <<>>
    /\ output' = Clear(output)
    /\ next' = [i \in 1..Len(keywords) |-> IF i < FirstEmpty THEN 1 ELSE 0]
    /\ current' = [i \in 1..(FirstEmpty - 1) |-> <<i, keywords[i][1]>>]
    /\ pc' = "done"
    /\ UNCHANGED <<keywords, leftmost, rightmost>>

\* Every stream yields a first position: build and sort the frontier.
EnterLoop ==
    /\ pc = "call"
    /\ Len(keywords) >= 2
    /\ \A i \in 1..Len(keywords) : keywords[i] # <<>>
    /\ output' = Clear(output)
    /\ next' = [i \in 1..Len(keywords) |-> 1]
    /\ \E c \in SortByPosition([i \in 1..Len(keywords) |-> <<i, keywords[i][1]>>]) :
        /\ current' = c
        /\ leftmost' = c[1]
        /\ rightmost' = c[Len(c)]
    /\ pc' = "loop"
    /\ UNCHANGED keywords

\* Lines 71-78: the new (leftmost, rightmost) after p replaced an entry.
NewEdges(p, q) ==
    IF p[2] > rightmost[2]
    THEN <<q, p>>
    ELSE <<IF p[2] < q[2] THEN p ELSE q, rightmost>>

\* Mutant: the loop broken where the read finds the stream empty, before the
\* frontier is recorded.
StepExhaustedBreaksFirst ==
    /\ pc = "loop"
    /\ ~HasNext(leftmost[1])
    /\ output' = SortOutput(output)
    /\ pc' = "done"
    /\ UNCHANGED <<keywords, next, current, leftmost, rightmost>>

\* The stream of the leftmost keyword is exhausted: record the frontier,
\* break, and sort the output.
StepExhausted ==
    /\ pc = "loop"
    /\ ~HasNext(leftmost[1])
    /\ \E c \in SortByKeyword(current) :
        /\ current' = c
        /\ output' = SortOutput(Append(output, Window(c)))
    /\ pc' = "done"
    /\ UNCHANGED <<keywords, next, leftmost, rightmost>>

\* p > r: record the frontier, then replace the entry at leftmost_index.
StepEmit ==
    /\ pc = "loop"
    /\ HasNext(leftmost[1])
    /\ LET p == <<leftmost[1], Peek(leftmost[1])>>
           q == current[2]
           leftmost_index == current[1][1]
       IN /\ p[2] > rightmost[2]
          /\ next' = Advance(leftmost[1])
          /\ \E c \in SortByKeyword(current) :
              /\ output' = Append(output, Window(c))
              /\ current' \in SortByPosition([c EXCEPT ![leftmost_index] = p])
          /\ leftmost' = NewEdges(p, q)[1]
          /\ rightmost' = NewEdges(p, q)[2]
    /\ UNCHANGED <<keywords, pc>>

\* p <= r: nothing is recorded, p replaces current[0].
StepSlide ==
    /\ pc = "loop"
    /\ HasNext(leftmost[1])
    /\ LET p == <<leftmost[1], Peek(leftmost[1])>>
           q == current[2]
       IN /\ p[2] <= rightmost[2]
          /\ next' = Advance(leftmost[1])
          /\ current' \in SortByPosition([current EXCEPT ![LeftmostIndex0] = p])
          /\ leftmost' = NewEdges(p, q)[1]
          /\ rightmost' = NewEdges(p, q)[2]
    /\ UNCHANGED <<keywords, output, pc>>

Next ==
    \/ EnterFew
    \/ EnterEmpty
    \/ EnterLoop
    \/ StepExhausted
    \/ StepEmit
    \/ StepSlide

Spec == Init /\ [][Next]_vars

-----------------------------------------------------------------------------

\* The call is synchronous and never suspended: a step that can be taken is
\* taken. Termination is explored on the inputs of fewer than MaxTotal
\* positions.
FairInit == Init /\ Sum([i \in 1..Len(keywords) |-> Len(keywords[i])]) < MaxTotal
FairSpec == FairInit /\ [][Next]_vars /\ WF_vars(Next)

-----------------------------------------------------------------------------
\* Vocabulary of the properties.

K == Len(keywords)

\* The call got past the degenerate cases and entered the general case.
General == K >= 2 /\ pc \in {"loop", "done"}

Range(s) == {s[j] : j \in 1..Len(s)}
SetMax(S) == CHOOSE x \in S : \A y \in S : y <= x

PathMin(w) == SetMin(Range(w[2]))
PathMax(w) == SetMax(Range(w[2]))

Count(x, s) == Cardinality({j \in 1..Len(s) : s[j] = x})
SameBag(s, t) ==
    /\ Len(s) = Len(t)
    /\ \A x \in Range(s) \cup Range(t) : Count(x, s) = Count(x, t)

\* The positions stream i has yielded so far, and those it still holds.
ReadOf(i) == {keywords[i][j] : j \in 1..next[i]}
UnreadOf(i) == {keywords[i][j] : j \in (next[i] + 1)..Len(keywords[i])}

\* This step records a window; Recorded(w) says w is the one.
Records == Len(output') = Len(output) + 1
Recorded(w) == Count(w, output') = Count(w, output) + 1

\* Brute-force reference: the minimal intervals covering every keyword.
Covers(l, r) == \A i \in 1..K : \E j \in 1..Len(keywords[i]) :
                    l <= keywords[i][j] /\ keywords[i][j] <= r
MinimalIntervals ==
    {lr \in (0..MaxPos) \X (0..MaxPos) :
        /\ lr[1] <= lr[2]
        /\ Covers(lr[1], lr[2])
        /\ \A l2 \in lr[1]..lr[2] : \A r2 \in l2..lr[2] :
              <<l2, r2>> # lr => ~Covers(l2, r2)}

\* The tracked edges never cross, so Sub never overflows.
NoUnderflow == pc = "loop" => leftmost[2] <= rightmost[2]

-----------------------------------------------------------------------------
\* C1: with k >= 2 sorted streams, every recorded window has k positions and
\* its i-th position occurs in stream i.
C1_PathsFromOwnStreams ==
    General => \A w \in Range(output) :
        /\ Len(w[2]) = K
        /\ \A i \in 1..K : w[2][i] \in Range(keywords[i])

\* C2: with k >= 2 non-empty sorted streams, the returned output holds, for
\* every minimal covering interval [l, r], a window with smallest position l,
\* largest position r and size r - l.
C2_EveryMinimalInterval ==
    (General /\ pc = "done" /\ \A i \in 1..K : keywords[i] # <<>>) =>
        \A lr \in MinimalIntervals : \E w \in Range(output) :
            /\ PathMin(w) = lr[1]
            /\ PathMax(w) = lr[2]
            /\ w[1] = lr[2] - lr[1]

\* C3: on return, whatever path returned, the output is ordered by size and,
\* among equal sizes, lexicographically by positions.
C3_OutputOrdered ==
    pc = "done" => \A j \in 1..(Len(output) - 1) :
        \/ output[j][1] < output[j + 1][1]
        \/ /\ output[j][1] = output[j + 1][1]
           /\ LexLeq(output[j][2], output[j + 1][2])

C3_Witness ==
    /\ pc = "done"
    /\ K >= 2
    /\ Len(output) >= 3
    /\ output[1][1] = output[2][1]
    /\ output[2][1] < output[3][1]

\* C4: with k >= 2, the size of every recorded window is the largest position
\* of the window minus its smallest (and is never an underflowed value).
C4_SizeIsSpan ==
    General => \A w \in Range(output) :
        /\ w[1] >= 0
        /\ w[1] = PathMax(w) - PathMin(w)

\* C5: once the stream of the leftmost keyword is found exhausted, the
\* frontier is recorded as one last window and the call returns: no stream is
\* read in that step or after it, nothing is recorded after it, and every
\* position of the returned output was read before the stop.
C5_StopStep ==
    (pc = "loop" /\ ~HasNext(leftmost[1])) =>
        /\ pc' = "done"
        /\ next' = next
        /\ Records
        /\ \E w \in Range(output') :
            /\ Recorded(w)
            /\ SameBag(w[2], Path(current))
            /\ SameBag(output', Append(output, w))
        /\ \A w \in Range(output') : \A j \in 1..Len(w[2]) :
              \E i \in 1..K : w[2][j] \in ReadOf(i)
C5_AfterStop == pc = "done" => UNCHANGED <<output, next, pc>>
C5_HardStop == [][C5_StopStep /\ C5_AfterStop]_vars

C5_Witness ==
    /\ pc = "done"
    /\ K >= 2
    /\ Len(output) >= 2
    /\ \E i \in 1..K : next[i] >= 1 /\ HasNext(i)

\* C6: with k = 1 the output is one window per position of the stream, in
\* stream order, each of size 0 with that single position.
C6_SingleKeyword ==
    (pc = "done" /\ K = 1) =>
        /\ Len(output) = Len(keywords[1])
        /\ \A j \in 1..Len(output) : output[j] = <<0, <<keywords[1][j]>>>>

C6_Witness ==
    /\ pc = "done"
    /\ K = 1
    /\ Len(output) >= 3
    /\ output[1] = output[2]
    /\ output[2] # output[3]

\* C7: with k >= 2 and some stream empty, the call returns an empty output,
\* whatever the output held before and whatever the other streams hold.
C7_EmptyStream ==
    (pc = "done" /\ K >= 2 /\ \E i \in 1..K : keywords[i] = <<>>) => output = <<>>

C7_Witness ==
    /\ pc = "done"
    /\ K >= 2
    /\ keywords[1] # <<>>
    /\ next[1] = 1
    /\ \E i \in 2..K : keywords[i] = <<>>
    /\ output = <<>>

\* C8: the call terminates; an iteration of the loop either reads exactly one
\* position from one stream or exits, and it exits only when the stream of
\* the leftmost keyword is exhausted.
C8_Iteration ==
    pc = "loop" =>
        \/ /\ pc' = "done"
           /\ ~HasNext(leftmost[1])
           /\ next' = next
        \/ /\ pc' = "loop"
           /\ \E i \in 1..K :
                /\ HasNext(i)
                /\ next' = [next EXCEPT ![i] = next[i] + 1]
C8_Terminates == <>(pc = "done") /\ [][C8_Iteration]_vars

C8_Witness ==
    /\ pc = "done"
    /\ K >= 2
    /\ Sum(next) >= K + 1
    /\ Len(output) >= 2
    /\ \E i \in 1..K : HasNext(i)

\* C9: in the loop the frontier holds exactly one entry per keyword.
C9_OneEntryPerKeyword ==
    (K >= 2 /\ pc = "loop") =>
        /\ Len(current) = K
        /\ \A i \in 1..K : Cardinality({j \in 1..Len(current) : current[j][1] = i}) = 1

\* C10: a recorded window is locally minimal: a keyword supplying its smallest
\* position holds no unread position at or below its largest position; and an
\* iteration whose read position is at most the rightmost records nothing.
C10_Step ==
    pc = "loop" =>
        /\ Records =>
            \E w \in Range(output') :
                /\ Recorded(w)
                /\ \E i \in 1..K :
                    /\ w[2][i] = PathMin(w)
                    /\ \A u \in UnreadOf(i) : u > PathMax(w)
        /\ (HasNext(leftmost[1]) /\ Peek(leftmost[1]) <= rightmost[2]) => output' = output
C10_LocallyMinimal == [][C10_Step]_vars

-----------------------------------------------------------------------------
\* Supporting lemma: the violations of C1, C2, C4, C9 and C10 all need a
\* position that occurs in two different streams. When no two streams share
\* a position, leftmost is always the entry current[1] and each of those
\* claims holds.
DisjointStreams ==
    \A i \in 1..K : \A j \in 1..K :
        i # j => Range(keywords[i]) \cap Range(keywords[j]) = {}
DisjointStreamsSound ==
    DisjointStreams =>
        /\ C1_PathsFromOwnStreams
        /\ C2_EveryMinimalInterval
        /\ C4_SizeIsSpan
        /\ C9_OneEntryPerKeyword
        /\ (General /\ pc = "loop" => leftmost = current[1])
DisjointStreamsMinimal == [][DisjointStreams => C10_Step]_vars
====
